---------------------------- MODULE Spec2Model ----------------------------
(***************************************************************************)
(* Framed message channel of christmas-tree-rs: the postcard encoding of   *)
(* Message (common/src/message.rs), COBS framing with a 0x00 delimiter,    *)
(* and the send / try_receive / receive operations of the two              *)
(* MessageHandler implementations (server/src/messages.rs over a serial    *)
(* port, firmware/src/messages.rs over a UART).                            *)
(*                                                                         *)
(* Bytes are naturals in 0..255; byte strings are sequences of bytes.      *)
(***************************************************************************)
EXTENDS Integers, Sequences, FiniteSets, TLC

-----------------------------------------------------------------------------
(* Results *)

Ok(v) == [ok |-> TRUE, val |-> v]

Err(e) == [ok |-> FALSE, err |-> e]

Min(a, b) == IF a <= b THEN a ELSE b

-----------------------------------------------------------------------------
(* Message model: common/src/message.rs *)

Rgb(r, g, b) == [r |-> r, g |-> g, b |-> b]

Heartbeat == [type |-> "Heartbeat"]

SetLeds(leds) == [type |-> "SetLeds", leds |-> leds]

Log(level, content) == [type |-> "Log", level |-> level, content |-> content]

Levels == {"error", "warn", "info", "debug", "trace"}

\* SerializableLogLevel::serialize: the level is written as its lower-case
\* name (ASCII bytes).
level_str(level) ==
    CASE level = "error" -> <<101, 114, 114, 111, 114>>
      [] level = "warn"  -> <<119, 97, 114, 110>>
      [] level = "info"  -> <<105, 110, 102, 111>>
      [] level = "debug" -> <<100, 101, 98, 117, 103>>
      [] level = "trace" -> <<116, 114, 97, 99, 101>>

\* A varint writer that never continues into a second byte.
varint_one_byte(n) == <<n % 256>>

\* postcard varint (LEB128): seven bits a byte, low group first, bit 7 set on
\* every byte but the last.
RECURSIVE varint(_)
varint(n) ==
    IF n < 128 THEN <<n>> ELSE <<(n % 128) + 128>> \o varint(n \div 128)

\* A str / String: varint length, then the UTF-8 bytes.
ser_str(s) == varint(Len(s)) \o s

\* Vec<Rgb>: varint element count, then r, g, b of each element.
ser_leds(leds) ==
    varint(Len(leds)) \o
    [i \in 1..(3 * Len(leds)) |->
        LET led == leds[(i + 2) \div 3]
        IN  CASE i % 3 = 1 -> led.r
              [] i % 3 = 2 -> led.g
              [] OTHER     -> led.b]

\* Message::to_bytes = postcard::to_allocvec: the variant index as a varint,
\* then the payload's fields in declaration order.
to_bytes(m) ==
    CASE m.type = "Heartbeat" -> <<0>>
      [] m.type = "SetLeds"   -> <<1>> \o ser_leds(m.leds)
      [] m.type = "Log"       -> <<2>> \o ser_str(level_str(m.level))
                                       \o ser_str(m.content)

\* Values of 2^28 and more are all represented by Huge: a decoded varint is
\* only compared with a variant index or with the number of bytes left.
Huge == 2 ^ 28

\* postcard's try_take_varint: at most maxBytes bytes; the last allowed byte
\* may carry at most maxLast.  Yields the value and the bytes after it.
RECURSIVE try_take_varint(_, _, _, _, _)
try_take_varint(bytes, i, out, maxBytes, maxLast) ==
    IF i = maxBytes THEN Err("DeserializeBadVarint")
    ELSE IF bytes = <<>> THEN Err("DeserializeUnexpectedEnd")
    ELSE LET val   == Head(bytes)
             carry == val % 128
             out2  == IF carry = 0 THEN out
                      ELSE IF i >= 4 THEN Huge
                      ELSE Min(Huge, out + carry * (128 ^ i))
         IN  IF val < 128
             THEN IF i = maxBytes - 1 /\ val > maxLast
                  THEN Err("DeserializeBadVarint")
                  ELSE [ok |-> TRUE, val |-> out2, rest |-> Tail(bytes)]
             ELSE try_take_varint(Tail(bytes), i + 1, out2, maxBytes, maxLast)

take_varint_u32(bytes) == try_take_varint(bytes, 0, 0, 5, 15)

\* usize is 64 bits on the server host and 32 bits on the firmware target.
take_varint_usize(bytes, bits) ==
    IF bits = 64 THEN try_take_varint(bytes, 0, 0, 10, 1)
    ELSE try_take_varint(bytes, 0, 0, 5, 15)

\* core::str::from_utf8: whether s[i..] is well-formed UTF-8.  A run of
\* ASCII bytes is passed over in one step, up to the next byte of 0x80 or
\* more, which must begin a well-formed sequence of two to four bytes.
RECURSIVE utf8_from(_, _)
utf8_from(s, i) ==
    LET n == Len(s)
        high == {j \in i..n : s[j] >= 128}
        cont(j, lo, hi) == j <= n /\ s[j] >= lo /\ s[j] <= hi
        sequence(k, b) ==
            IF b >= 194 /\ b <= 223
            THEN cont(k + 1, 128, 191) /\ utf8_from(s, k + 2)
            ELSE IF b >= 224 /\ b <= 239
            THEN /\ cont(k + 1, IF b = 224 THEN 160 ELSE 128,
                                IF b = 237 THEN 159 ELSE 191)
                 /\ cont(k + 2, 128, 191)
                 /\ utf8_from(s, k + 3)
            ELSE IF b >= 240 /\ b <= 244
            THEN /\ cont(k + 1, IF b = 240 THEN 144 ELSE 128,
                                IF b = 244 THEN 143 ELSE 191)
                 /\ cont(k + 2, 128, 191)
                 /\ cont(k + 3, 128, 191)
                 /\ utf8_from(s, k + 4)
            ELSE FALSE
        at(k) == sequence(k, s[k])
    IN  IF high = {} THEN TRUE
        ELSE at(CHOOSE k \in high : \A j \in high : k <= j)

\* Deserialize a String: varint length, that many bytes, UTF-8 checked.
take_string(bytes, bits) ==
    LET bytes_of(n) ==
            IF ~n.ok THEN n
            ELSE IF Len(n.rest) < n.val THEN Err("DeserializeUnexpectedEnd")
            ELSE IF ~utf8_from(SubSeq(n.rest, 1, n.val), 1)
                 THEN Err("DeserializeBadUtf8")
            ELSE [ok |-> TRUE, val |-> SubSeq(n.rest, 1, n.val),
                  rest |-> SubSeq(n.rest, n.val + 1, Len(n.rest))]
    IN  bytes_of(take_varint_usize(bytes, bits))

\* SerializableLogLevel::deserialize: a String that must be one of the five
\* names.
take_level(bytes, bits) ==
    LET named(s) ==
            IF ~s.ok THEN s
            ELSE LET ls == {l \in Levels : level_str(l) = s.val}
                 IN  IF ls # {}
                     THEN [ok |-> TRUE, val |-> CHOOSE l \in ls : TRUE,
                           rest |-> s.rest]
                     ELSE Err("Invalid log level")
    IN  named(take_string(bytes, bits))

\* Deserialize Vec<Rgb>: varint count, then three bytes an element.
take_leds(bytes, bits) ==
    LET elements(n) ==
            IF ~n.ok THEN n
            ELSE IF Len(n.rest) < 3 * n.val
                 THEN Err("DeserializeUnexpectedEnd")
            ELSE [ok |-> TRUE,
                  val |-> [i \in 1..n.val |->
                              Rgb(n.rest[3 * i - 2], n.rest[3 * i - 1],
                                  n.rest[3 * i])],
                  rest |-> SubSeq(n.rest, 3 * n.val + 1, Len(n.rest))]
    IN  elements(take_varint_usize(bytes, bits))

\* Message::from_bytes = postcard::from_bytes: the variant index, then the
\* payload; bytes after the value are ignored.
from_bytes(bytes, bits) ==
    LET set_leds(l) == IF l.ok THEN Ok(SetLeds(l.val)) ELSE Err(l.err)
        log_content(lv, c) == IF c.ok THEN Ok(Log(lv.val, c.val))
                              ELSE Err(c.err)
        log(lv) == IF ~lv.ok THEN Err(lv.err)
                   ELSE log_content(lv, take_string(lv.rest, bits))
        variant(t) ==
            IF ~t.ok THEN Err(t.err)
            ELSE CASE t.val = 0 -> Ok(Heartbeat)
                   [] t.val = 1 -> set_leds(take_leds(t.rest, bits))
                   [] t.val = 2 -> log(take_level(t.rest, bits))
                   [] OTHER     -> Err("invalid variant index")
    IN  variant(take_varint_u32(bytes))

-----------------------------------------------------------------------------
(* Frame codec: COBS byte stuffing and the 0x00 delimiter *)

\* Frame delimiter byte (0x00).
FRAME_DELIMITER == 0

\* Offset (1-based) of the first non-zero-free position: the first 0x00 in
\* data at or after index from, or Len(data) + 1 when there is none.
first_zero(data, from) ==
    LET zs == {i \in from..Len(data) : data[i] = 0}
    IN  IF zs = {} THEN Len(data) + 1
        ELSE CHOOSE i \in zs : \A j \in zs : i <= j

\* cobs encoder (cobs::encode_vec, and postcard's Cobs flavor behind
\* to_stdvec_cobs): data[from..] is cut into blocks of at most 254 non-zero
\* bytes; each block is preceded by a code byte, its length plus one (0xFF
\* for a full block, which is not followed by an implied zero), and a final
\* code byte closes the data after a zero or a full block.
RECURSIVE cobs_blocks(_, _)
cobs_blocks(data, from) ==
    IF from > Len(data) THEN <<1>>
    ELSE LET z   == first_zero(data, from)
             run == Min(z - from, 254)
             blk == SubSeq(data, from, from + run - 1)
         IN  IF run = 254
             THEN <<255>> \o blk \o cobs_blocks(data, from + 254)
             ELSE IF z > Len(data)
             THEN <<run + 1>> \o blk
             ELSE <<run + 1>> \o blk \o cobs_blocks(data, z + 1)

\* An encoder that leaves the data as it is.
encode_plain(data) == data

encode_vec(data) == IF data = <<>> THEN <<>> ELSE cobs_blocks(data, 1)

\* cobs decoder state machine (DecoderState::feed), taken a block at a time
\* over body, the bytes before the delimiter (none of them 0x00).  A code
\* byte c at pos announces c - 1 data bytes (254 for 0xFF); the delimiter
\* must arrive exactly where the next code byte is due.
RECURSIVE cobs_well_formed(_, _)
cobs_well_formed(body, pos) ==
    LET c    == body[pos]
        next == pos + (IF c = 255 THEN 255 ELSE c)
    IN  IF next > Len(body) + 1 THEN FALSE
        ELSE IF next = Len(body) + 1 THEN TRUE
        ELSE cobs_well_formed(body, next)

\* The decoded bytes of a well-formed body from the code byte at pos on: the
\* block's data, then a zero where another block follows a code below 0xFF.
RECURSIVE cobs_data(_, _)
cobs_data(body, pos) ==
    LET c    == body[pos]
        next == pos + (IF c = 255 THEN 255 ELSE c)
        blk  == SubSeq(body, pos + 1, next - 1)
    IN  IF next = Len(body) + 1 THEN blk
        ELSE blk \o (IF c = 255 THEN <<>> ELSE <<0>>) \o cobs_data(body, next)

\* A decoder that takes the bytes before the delimiter as the data.
cobs_decode_plain(body) == Ok(body)

\* cobs::decode_vec / cobs::decode_in_place on a frame whose bytes before the
\* delimiter are body: an empty body is an error (the delimiter arrives in
\* the Idle state and nothing completes).
cobs_decode(body) ==
    IF body = <<>> THEN Err("cobs")
    ELSE IF cobs_well_formed(body, 1) THEN Ok(cobs_data(body, 1))
    ELSE Err("cobs")

\* postcard::to_stdvec_cobs (server send): serialize, stuff, append 0x00.
to_stdvec_cobs(m) == encode_vec(to_bytes(m)) \o <<FRAME_DELIMITER>>

\* postcard::from_bytes_cobs (server try_receive) on frame_data, which ends
\* with the delimiter: decode in place, then deserialize.
from_bytes_cobs(frame_data, bits) ==
    LET deserialize(d) == IF d.ok THEN from_bytes(d.val, bits)
                          ELSE Err("DeserializeBadEncoding")
    IN  deserialize(cobs_decode(SubSeq(frame_data, 1, Len(frame_data) - 1)))

-----------------------------------------------------------------------------
(* MessageHandler: the pure parts of send and try_receive *)

\* The two handler implementations.
Kinds == {"server", "firmware"}

Peer(kind) == IF kind = "server" THEN "firmware" ELSE "server"

\* Width of usize where the handler runs.
usize_bits(kind) == IF kind = "server" THEN 64 ELSE 32

\* The read buffer of one transport read: [0u8; 256].
READ_BUF == 256

\* The receive buffer's cap: a delimiter-free buffer longer than this is
\* cleared.
BUFFER_CAP == 4096

\* The frame send builds.  firmware: to_allocvec, cobs::encode_vec, push the
\* delimiter; server: postcard::to_stdvec_cobs.
encoded_frame(kind, message) ==
    IF kind = "firmware"
    THEN encode_vec(to_bytes(message)) \o <<FRAME_DELIMITER>>
    ELSE to_stdvec_cobs(message)

\* A write loop that goes on one byte too far behind the accepted bytes.
advance_skipping(remaining, n) == SubSeq(remaining, n + 2, Len(remaining))

\* send's write loop after a write that accepted n bytes:
\* remaining = &remaining[n..].
advance(remaining, n) == SubSeq(remaining, n + 1, Len(remaining))

\* Return values of try_receive.
RSome(m) == [tag |-> "Some", msg |-> m]

RNone == [tag |-> "None"]

RErr(e) == [tag |-> "Err", err |-> e]

\* A delimiter-free buffer that is dropped without an error.
no_delimiter_clearing(recv_buf) == [ret |-> RNone, buf |-> <<>>]

\* A cap that already a buffer of BUFFER_CAP bytes exceeds.
no_delimiter_early(recv_buf) ==
    IF Len(recv_buf) >= BUFFER_CAP
    THEN [ret |-> RErr("BufferOverflow"), buf |-> <<>>]
    ELSE [ret |-> RNone, buf |-> recv_buf]

\* What is done with a delimiter-free buffer: cleared with BufferOverflow
\* when longer than the cap, kept otherwise.
no_delimiter(recv_buf) ==
    IF Len(recv_buf) > BUFFER_CAP
    THEN [ret |-> RErr("BufferOverflow"), buf |-> <<>>]
    ELSE [ret |-> RNone, buf |-> recv_buf]

\* A scan that gives up at the first frame that does not decode and leaves
\* the buffer as it is.
scan_server_giving_up(recv_buf) ==
    LET frame_end == first_zero(recv_buf, 1)
    IN  IF frame_end > Len(recv_buf) THEN no_delimiter(recv_buf)
        ELSE LET decoded == from_bytes_cobs(SubSeq(recv_buf, 1, frame_end), 64)
             IN  IF decoded.ok
                 THEN [ret |-> RSome(decoded.val),
                       buf |-> SubSeq(recv_buf, frame_end + 1, Len(recv_buf))]
                 ELSE [ret |-> RNone, buf |-> recv_buf]

\* server try_receive, the scan loop under the receive_buffer lock.  With
\* the first delimiter at frame_end, every failed decode removes the leading
\* byte and tries again, so the frame returned is the longest-starting
\* suffix recv_buf[i..=frame_end] that decodes; when none does, the bytes up
\* to and including the delimiter are gone and the scan goes on behind it
\* (or stops with an empty buffer when the delimiter was the last byte).
RECURSIVE scan_server(_)
scan_server(recv_buf) ==
    LET at(frame_end) ==
            LET rest == SubSeq(recv_buf, frame_end + 1, Len(recv_buf))
                from(decoded) ==
                    LET starts == IF decoded[1].ok THEN {1}
                                  ELSE {i \in 2..frame_end : decoded[i].ok}
                    IN  IF starts # {}
                        THEN [ret |-> RSome(decoded[CHOOSE i \in starts :
                                              \A j \in starts : i <= j].val),
                              buf |-> rest]
                        ELSE IF frame_end = Len(recv_buf)
                        THEN [ret |-> RNone, buf |-> <<>>]
                        ELSE scan_server(rest)
            IN  IF frame_end > Len(recv_buf) THEN no_delimiter(recv_buf)
                ELSE from([i \in 1..frame_end |->
                            from_bytes_cobs(SubSeq(recv_buf, i, frame_end), 64)])
    IN  at(first_zero(recv_buf, 1))

\* firmware try_receive, the frame search under the receive_buffer lock: the
\* bytes before the first delimiter are taken out of the buffer together
\* with the delimiter, then COBS-decoded and deserialized; either failure is
\* returned to the caller.
scan_firmware(recv_buf) ==
    LET at(frame_end) ==
            LET frame_data == SubSeq(recv_buf, 1, frame_end - 1)
                rest == SubSeq(recv_buf, frame_end + 1, Len(recv_buf))
                deserialized(msg) ==
                    IF ~msg.ok
                    THEN [ret |-> RErr("Deserialization"), buf |-> rest]
                    ELSE [ret |-> RSome(msg.val), buf |-> rest]
                decoded(d) ==
                    IF ~d.ok THEN [ret |-> RErr("DecodeError"), buf |-> rest]
                    ELSE deserialized(from_bytes(d.val, 32))
            IN  IF frame_end > Len(recv_buf) THEN no_delimiter(recv_buf)
                ELSE decoded(cobs_decode(frame_data))
    IN  at(first_zero(recv_buf, 1))

\* A frame search that empties the buffer behind the frame it found.
scan_clearing(kind, recv_buf) ==
    IF recv_buf = <<>> THEN [ret |-> RNone, buf |-> <<>>]
    ELSE [ret |-> (IF kind = "server" THEN scan_server(recv_buf)
                   ELSE scan_firmware(recv_buf)).ret,
          buf |-> <<>>]

\* Look for a complete frame: nothing to do on an empty buffer.
scan(kind, recv_buf) ==
    IF recv_buf = <<>> THEN [ret |-> RNone, buf |-> <<>>]
    ELSE IF kind = "server" THEN scan_server(recv_buf)
    ELSE scan_firmware(recv_buf)

\* A try_receive that throws the receive buffer away when a read fails.
try_receive_server_clearing(recv_buf, port, fail_at) ==
    LET got  == IF fail_at = 0 THEN Len(port)
                ELSE Min(READ_BUF * (fail_at - 1), Len(port))
        rest == SubSeq(port, got + 1, Len(port))
    IN  IF fail_at # 0
        THEN [ret |-> RErr("ReadError"), buf |-> <<>>,
              port |-> rest, nread |-> got, any_bytes_received |-> FALSE]
        ELSE scan("server", recv_buf \o SubSeq(port, 1, got)) @@
             [port |-> rest, nread |-> got, any_bytes_received |-> got > 0]

\* server try_receive: the read loop, then the scan.  port holds the bytes
\* the serial port has for the handler; every read takes up to READ_BUF of
\* them and the loop ends on a read without data.  fail_at = 0: no read
\* fails; fail_at = j: the j-th read of the loop fails with an error other
\* than TimedOut, which returns ReadError at once, after the earlier reads
\* were appended to the receive buffer and before last_read_time is set.
try_receive_server(recv_buf, port, fail_at) ==
    LET got  == IF fail_at = 0 THEN Len(port)
                ELSE Min(READ_BUF * (fail_at - 1), Len(port))
        data == SubSeq(port, 1, got)
        rest == SubSeq(port, got + 1, Len(port))
    IN  IF fail_at # 0
        THEN [ret |-> RErr("ReadError"), buf |-> recv_buf \o data,
              port |-> rest, nread |-> got, any_bytes_received |-> FALSE]
        ELSE scan("server", recv_buf \o data) @@
             [port |-> rest, nread |-> got, any_bytes_received |-> got > 0]

\* firmware try_receive: one read of up to READ_BUF bytes, then the frame
\* search.  fail_at # 0: the read fails, which is taken as no data.
try_receive_firmware(recv_buf, uart, fail_at) ==
    LET got  == IF fail_at = 0 THEN Min(READ_BUF, Len(uart)) ELSE 0
        data == SubSeq(uart, 1, got)
        rest == SubSeq(uart, got + 1, Len(uart))
    IN  scan("firmware", recv_buf \o data) @@
        [port |-> rest, nread |-> got, any_bytes_received |-> got > 0]

try_receive(kind, recv_buf, port, fail_at) ==
    IF kind = "server" THEN try_receive_server(recv_buf, port, fail_at)
    ELSE try_receive_firmware(recv_buf, port, fail_at)

\* The reads one try_receive invocation can see fail: any read of the
\* server's loop (one more than it takes to drain the port), the firmware's
\* single read.
FailPoints(kind, port) ==
    IF kind = "server"
    THEN 1..(((Len(port) + READ_BUF - 1) \div READ_BUF) + 1)
    ELSE {1}

\* The sleep of the server's receive between two polls, in milliseconds.
SLEEP_MS == 10

\* Return values of receive.
RTimeout == RErr("Timeout")

\* A receive that gives up at the first poll without a message.
receive_step_hasty(kind, ret, elapsed, timeout_ms) ==
    IF ret.tag = "None" THEN [pc |-> "idle", ret |-> RTimeout]
    ELSE [pc |-> "idle", ret |-> ret]

\* receive, one turn of its loop on what try_receive returned: a message or
\* an error is returned; without a message Timeout is returned once the
\* timeout has elapsed, else the server sleeps and the firmware polls again.
receive_step(kind, ret, elapsed, timeout_ms) ==
    CASE ret.tag = "Some" -> [pc |-> "idle", ret |-> ret]
      [] ret.tag = "Err"  -> [pc |-> "idle", ret |-> ret]
      [] ret.tag = "None" ->
            IF elapsed >= timeout_ms THEN [pc |-> "idle", ret |-> RTimeout]
            ELSE [pc |-> IF kind = "server" THEN "sleep" ELSE "poll",
                  ret |-> [tag |-> "Pending"]]

-----------------------------------------------------------------------------
(* The channel: one handler sends, its peer receives *)

VARIABLES
    receiver,         \* kind of the handler that receives; its peer sends
    \* the sending handler, inside send
    send_pc,          \* "idle", "write" (in the write loop), "flush"
    message,          \* the message of the send call in progress or last made
    encoded,          \* the frame send built for it
    remaining,        \* the write loop's remaining slice
    send_ret,         \* what that call returned: "none" while it runs
    \* the transport
    wire,             \* bytes written and not yet read by the receiver
    now,              \* the clock, in milliseconds
    \* the receiving handler
    receive_buffer,   \* bytes read and not yet resolved into a message
    last_read_time,   \* <<t>>: bytes were last read at t; <<>>: never
    \* inside receive(timeout)
    recv_pc,          \* "idle", "poll" (about to call try_receive), "sleep"
    start,            \* Instant::now() at the call
    timeout,          \* the timeout of the call, in milliseconds
    recv_ret,         \* what the call returned
    \* the codec on its own
    codec_pc,         \* "idle", "message", "encoded", "decoded"
    bytes,            \* message.to_bytes()
    decoded,          \* Message::from_bytes(bytes)
    \* history
    accepted,         \* bytes of the frame the transport accepted in this call
    flushed,          \* whether the flush of this call succeeded
    failure,          \* the transport failure that call met, "none" if none
    short_write,      \* whether a write of that call accepted only a part
    sent,             \* finished send calls: message, return, length of
                      \* the frame, bytes accepted
    noise,            \* the garbage put on the line
    last_ret,         \* what the last try_receive invocation returned
    last_nread,       \* how many bytes it read from the transport
    rx_msgs,          \* the messages try_receive returned, in order
    rx_errs,          \* the errors try_receive returned, in order
    burst,            \* frames in the last read, when it was a single read of
                      \* whole frames into an empty buffer; 0 when it was not
    polls,            \* try_receive invocations of the receive call
    slept,            \* sleeps of the receive call
    \* what the environment may still do
    sends_left, noise_left, faults_left, calls_left,
    \* the firmware's tasks and their queues
    rx_read,          \* how many messages of the inbound stream rx_task read
    rx_pending,       \* messages rx_task decoded and has not enqueued yet
    rx_channel,       \* RX_CHANNEL, the inbound queue
    tx_channel,       \* TX_CHANNEL, the outbound queue
    tx_pc,            \* tx_task: "dequeue", "send" or "stopped"
    tx_msg,           \* <<m>>: the message tx_task dequeued last
    main_log,         \* the messages main received from RX_CHANNEL, in order
    tx_log,           \* the messages tx_task passed to the send path, in
                      \* order, with what the send path returned
    dropped,          \* the replies main's try_send did not enqueue
    stalled,          \* whether rx_task was held up by a full RX_CHANNEL
    inbound_len,      \* how many messages the peer sends in this run
    led_strip,        \* the pixels main handed to the LED driver last
    \* call sites working on one handler at the same time
    thread,           \* per call site: where it is in send, try_receive or
                      \* receive, and its locals
    locks,            \* per mutex of the handler: the call site holding it,
                      \* "free" when none does
    port_out,         \* the bytes the port accepted, each with the send
                      \* call it came from
    read_log,         \* the call sites holding a chunk read from the port
                      \* and not yet appended, in the order of their reads
    \* the server's main loop
    main_pc,          \* "loop", or "returned" once a send failed
    since_message,    \* its counter of iterations since the last Heartbeat
    iterations,       \* how many iterations of the loop have finished
    heartbeats,       \* the iterations in which main called send(Heartbeat)
    main_seen         \* what the loop has printed so far

sendVars == <<send_pc, message, encoded, remaining, send_ret, accepted,
              flushed, failure, short_write, sent, sends_left>>

rxVars == <<receive_buffer, last_read_time, last_ret, last_nread, rx_msgs,
            rx_errs, burst>>

recvVars == <<recv_pc, start, timeout, recv_ret, polls, slept, calls_left>>

codecVars == <<codec_pc, bytes, decoded>>

taskVars == <<rx_read, rx_pending, rx_channel, tx_channel, tx_pc, tx_msg,
              main_log, tx_log, dropped, stalled, inbound_len, led_strip>>

lockVars == <<thread, locks, port_out, read_log>>

mainVars == <<main_pc, since_message, iterations, heartbeats, main_seen>>

vars == <<receiver, sendVars, wire, now, rxVars, recvVars, codecVars, noise,
          noise_left, faults_left, taskVars, lockVars, mainVars>>

\* Bounds of the model.
MaxSends == 2

MaxNoise == 1

MaxFaults == 1

MaxCalls == 1

MaxPolls == 3

MaxTime == 3

MaxLeds == 2

\* Frames of up to SmallLen bytes are accepted by the transport in pieces of
\* any size; of a longer frame it accepts BUFFER_CAP bytes or all that is
\* left.
SmallLen == 12

\* The LED count of the strip (firmware main.rs).
NUM_LEDS == 513

Red == Rgb(255, 0, 0)

White == Rgb(255, 255, 255)

Text(k) == [i \in 1..k |-> 97]

\* The short messages the application sends.
SmallMenu == {Heartbeat, SetLeds(<<Red>>), Log("info", <<104, 105>>)}

\* The message with the longest frame that fits the receive buffer with its
\* delimiter, BUFFER_CAP + 1 bytes: the text, 8 bytes before it (variant,
\* level, length), 17 code bytes and the delimiter.  And a message whose
\* frame is a byte longer.
Largest == Log("info", Text(BUFFER_CAP - 25))

Oversize == Log("info", Text(BUFFER_CAP - 24))

Menu == SmallMenu \cup {Largest, Oversize}

\* Line noise: short garbage with exactly one 0x00 in it, and delimiter-free
\* runs as long as the cap and one byte longer.
Garbage == {<<5, 0>>, <<9, 0, 9>>, <<7, 1, 1, 0>>, <<1, 0, 2>>}

LongNoise == {[i \in 1..n |-> 255] : n \in {BUFFER_CAP, BUFFER_CAP + 1}}

\* The messages the codec is tried on.
Colours == {Rgb(r, g, b) : r \in {0, 255}, g \in {0, 255}, b \in {0, 255}}

Texts == {<<>>, <<104, 105>>, <<0>>, <<195, 169>>, <<226, 130, 172>>,
          <<240, 159, 142, 132>>, Text(127), Text(128)}

CodecMessages ==
    {Heartbeat, Largest, Oversize}
    \cup {SetLeds(leds) : leds \in UNION {[1..k -> Colours] : k \in 0..MaxLeds}}
    \cup {SetLeds([i \in 1..k |-> White]) : k \in {84, 85, 127, 128, NUM_LEDS}}
    \cup {Log(level, text) : level \in Levels, text \in Texts}

\* The sizes of the writes the transport accepts of rem.
AcceptSizes(rem) ==
    {n \in 1..Len(rem) :
        \/ Len(rem) <= SmallLen
        \/ n \in {BUFFER_CAP, Len(rem)}}

RNever == [tag |-> "Never"]

\* The call sites that use one handler concurrently.
Threads == {"a", "b"}

\* The mutexes of a MessageHandler.
Mutexes == {"port", "receive_buffer", "last_read_time"}

\* A call site outside of any call.
IdleThread ==
    [pc |-> "idle", op |-> "none", call |-> 0, new_data |-> <<>>,
     any_bytes_received |-> FALSE, remaining |-> <<>>, ret |-> RNever]

InitChannel ==
    /\ receiver \in Kinds
    /\ send_pc = "idle" /\ encoded = <<>>
    /\ remaining = <<>> /\ send_ret = "none"
    /\ accepted = <<>> /\ flushed = FALSE /\ failure = "none"
    /\ short_write = FALSE /\ sent = <<>>
    /\ wire = <<>> /\ now = 0
    /\ receive_buffer = <<>> /\ last_read_time = <<>>
    /\ last_ret = RNever /\ last_nread = 0
    /\ rx_msgs = <<>> /\ rx_errs = <<>> /\ burst = 0
    /\ recv_pc = "idle" /\ start = 0 /\ timeout = 0 /\ recv_ret = RNever
    /\ polls = 0 /\ slept = 0
    /\ main_pc = "loop" /\ since_message = 0 /\ iterations = 0
    /\ heartbeats = <<>> /\ main_seen = {}
    /\ bytes = <<>> /\ decoded = RNever
    /\ noise = <<>>
    /\ rx_read = 0 /\ rx_pending = <<>> /\ rx_channel = <<>>
    /\ tx_channel = <<>> /\ tx_pc = "dequeue" /\ tx_msg = <<>>
    /\ main_log = <<>> /\ tx_log = <<>> /\ dropped = <<>>
    /\ stalled = FALSE /\ led_strip = <<>>
    /\ thread = [t \in Threads |-> IdleThread]
    /\ locks = [m \in Mutexes |-> "free"]
    /\ port_out = <<>> /\ read_log = <<>>

-----------------------------------------------------------------------------
(* The codec on its own *)

\* message.to_bytes(), and the frame send builds of it.
Encode ==
    /\ codec_pc = "message"
    /\ bytes' = to_bytes(message)
    /\ encoded' = encoded_frame(Peer(receiver), message)
    /\ codec_pc' = "encoded"
    /\ UNCHANGED <<mainVars, taskVars, lockVars,
                   receiver, send_pc, message, remaining, send_ret, accepted,
                   flushed, failure, short_write, sent, sends_left, wire, now,
                   rxVars, recvVars, decoded, noise, noise_left, faults_left>>

\* Message::from_bytes on those bytes, where the receiver runs.
Decode ==
    /\ codec_pc = "encoded"
    /\ decoded' = from_bytes(bytes, usize_bits(receiver))
    /\ codec_pc' = "decoded"
    /\ UNCHANGED <<mainVars, taskVars, lockVars,
                   receiver, sendVars, wire, now, rxVars, recvVars, bytes,
                   noise, noise_left, faults_left>>

InitCodec ==
    /\ InitChannel
    /\ inbound_len = 0
    /\ message \in CodecMessages
    /\ codec_pc = "message"
    /\ sends_left = 0 /\ noise_left = 0 /\ faults_left = 0 /\ calls_left = 0

NextCodec == Encode \/ Decode

SpecCodec == InitCodec /\ [][NextCodec]_vars

-----------------------------------------------------------------------------
(* send *)

\* The call returns ret.
Return(ret) ==
    /\ send_pc' = "idle"
    /\ send_ret' = ret
    /\ sent' = Append(sent, [msg |-> message, ret |-> ret,
                             len |-> Len(encoded), bytes |-> accepted'])

\* send is called with message m: the frame is built and the write loop is
\* entered with the whole frame remaining.  A frame longer than SmallLen is
\* sent only as the one send of a run.
SendBegin(m) ==
    /\ send_pc = "idle"
    /\ sends_left > 0
    /\ \E frame \in {encoded_frame(Peer(receiver), m)} :
          /\ Len(frame) > SmallLen => sent = <<>>
          /\ sends_left' = IF Len(frame) > SmallLen THEN 0 ELSE sends_left - 1
          /\ encoded' = frame
          /\ remaining' = frame
    /\ message' = m
    /\ send_pc' = "write"
    /\ send_ret' = "none"
    /\ accepted' = <<>> /\ flushed' = FALSE /\ failure' = "none"
    /\ short_write' = FALSE
    /\ UNCHANGED <<mainVars, taskVars, lockVars,
                   receiver, sent, wire, now, rxVars, recvVars, codecVars,
                   noise, noise_left, faults_left>>

\* One turn of the write loop: port.write(remaining) accepts n > 0 bytes and
\* the loop goes on behind them, to the flush when nothing remains.
SendWrite ==
    /\ send_pc = "write"
    /\ \E n \in AcceptSizes(remaining) :
          /\ wire' = wire \o SubSeq(remaining, 1, n)
          /\ accepted' = accepted \o SubSeq(remaining, 1, n)
          /\ remaining' = advance(remaining, n)
          /\ short_write' = (short_write \/ n < Len(remaining))
          /\ send_pc' = IF remaining' = <<>> THEN "flush" ELSE "write"
    /\ UNCHANGED <<mainVars, taskVars, lockVars,
                   receiver, message, encoded, send_ret, flushed, failure,
                   sent, sends_left, now, rxVars, recvVars, codecVars, noise,
                   noise_left, faults_left>>

\* One turn of the write loop in which port.write accepts no byte (Ok(0)) or
\* fails: send returns WriteError.
SendWriteFail ==
    /\ send_pc = "write"
    /\ faults_left > 0
    /\ faults_left' = faults_left - 1
    /\ failure' \in {"zero", "write_err"}
    /\ accepted' = accepted
    /\ Return("WriteError")
    /\ UNCHANGED <<mainVars, taskVars, lockVars,
                   receiver, message, encoded, remaining, flushed,
                   short_write, sends_left, wire, now, rxVars, recvVars,
                   codecVars, noise, noise_left>>

\* port.flush() after the loop succeeds: send returns Ok(()).
SendFlush ==
    /\ send_pc = "flush"
    /\ flushed' = TRUE
    /\ accepted' = accepted
    /\ Return("Ok")
    /\ UNCHANGED <<mainVars, taskVars, lockVars,
                   receiver, message, encoded, remaining, failure,
                   short_write, sends_left, wire, now, rxVars, recvVars,
                   codecVars, noise, noise_left, faults_left>>

\* port.flush() fails: send returns WriteError.
SendFlushFail ==
    /\ send_pc = "flush"
    /\ faults_left > 0
    /\ faults_left' = faults_left - 1
    /\ failure' = "flush_err"
    /\ accepted' = accepted
    /\ Return("WriteError")
    /\ UNCHANGED <<mainVars, taskVars, lockVars,
                   receiver, message, encoded, remaining, flushed,
                   short_write, sends_left, wire, now, rxVars, recvVars,
                   codecVars, noise, noise_left>>

InitSend ==
    /\ InitChannel
    /\ inbound_len = 0
    /\ message = Heartbeat
    /\ codec_pc = "idle"
    /\ sends_left = MaxSends /\ faults_left = MaxFaults
    /\ noise_left = 0 /\ calls_left = 0

NextSend ==
    \/ \E m \in Menu : SendBegin(m)
    \/ SendWrite
    \/ SendWriteFail
    \/ SendFlush
    \/ SendFlushFail

SpecSend == InitSend /\ [][NextSend]_vars

-----------------------------------------------------------------------------
(* try_receive *)

\* Line noise: garbage g appears in the receiver's transport, on a line the
\* peer has not sent on yet.  A run longer than SmallLen is the only noise of
\* a run.
Noise(g) ==
    /\ noise_left > 0
    /\ send_pc = "idle" /\ sent = <<>>
    /\ Len(g) > SmallLen => noise = <<>>
    /\ noise_left' = IF Len(g) > SmallLen THEN 0 ELSE noise_left - 1
    /\ wire' = wire \o g
    /\ noise' = Append(noise, g)
    /\ UNCHANGED <<mainVars, taskVars, lockVars,
                   receiver, sendVars, now, rxVars, recvVars, codecVars,
                   faults_left>>

\* The messages whose frames make up data, when data is one or more whole
\* frames of short messages; <<>> otherwise.
RECURSIVE FrameMsgs(_, _)
FrameMsgs(kind, data) ==
    LET split(k) ==
            LET fits == {m \in SmallMenu :
                            encoded_frame(kind, m) = SubSeq(data, 1, k)}
                more(rest) ==
                    IF fits = {} THEN <<>>
                    ELSE IF k = Len(data) THEN <<CHOOSE m \in fits : TRUE>>
                    ELSE IF rest = <<>> THEN <<>>
                    ELSE <<CHOOSE m \in fits : TRUE>> \o rest
            IN  IF k > Len(data) THEN <<>>
                ELSE more(IF k = Len(data) THEN <<>>
                          ELSE FrameMsgs(kind, SubSeq(data, k + 1, Len(data))))
    IN  split(first_zero(data, 1))

\* One try_receive invocation on the receiving handler; with fail_at # 0 a
\* read of it fails.
TryReceiveCall(fail_at) ==
    \E r \in {try_receive(receiver, receive_buffer, wire, fail_at)} :
       /\ receive_buffer' = r.buf
       /\ wire' = r.port
       /\ last_read_time' = IF r.any_bytes_received THEN <<now>>
                            ELSE last_read_time
       /\ last_ret' = r.ret
       /\ last_nread' = r.nread
       /\ rx_msgs' = IF r.ret.tag = "Some" THEN Append(rx_msgs, r.ret.msg)
                     ELSE rx_msgs
       /\ rx_errs' = IF r.ret.tag = "Err" THEN Append(rx_errs, r.ret.err)
                     ELSE rx_errs
       /\ burst' = IF r.nread = 0 THEN burst
                   ELSE IF receive_buffer = <<>> /\ r.nread <= READ_BUF
                           /\ fail_at = 0
                   THEN Len(FrameMsgs(Peer(receiver), SubSeq(wire, 1, r.nread)))
                   ELSE 0

\* The application polls with try_receive.
TryReceive ==
    /\ recv_pc = "idle"
    /\ TryReceiveCall(0)
    /\ UNCHANGED <<mainVars, taskVars, lockVars,
                   receiver, sendVars, now, recvVars, codecVars, noise,
                   noise_left, faults_left>>

InitStream ==
    /\ InitChannel
    /\ inbound_len = 0
    /\ message = Heartbeat
    /\ codec_pc = "idle"
    /\ sends_left = MaxSends
    /\ faults_left = 0 /\ noise_left = 0 /\ calls_left = 0

NextStream ==
    \/ \E m \in Menu : SendBegin(m)
    \/ SendWrite
    \/ SendFlush
    \/ TryReceive

SpecStream == InitStream /\ [][NextStream]_vars

InitNoise ==
    /\ InitChannel
    /\ inbound_len = 0
    /\ message = Heartbeat
    /\ codec_pc = "idle"
    /\ sends_left = 1 /\ noise_left = MaxNoise
    /\ faults_left = 0 /\ calls_left = 0

NextNoise ==
    \/ \E g \in Garbage \cup LongNoise : Noise(g)
    \/ \E m \in SmallMenu : SendBegin(m)
    \/ SendWrite
    \/ SendFlush
    \/ TryReceive

SpecNoise == InitNoise /\ [][NextNoise]_vars

-----------------------------------------------------------------------------
(* receive *)

\* receive(timeout) is called.
ReceiveBegin(t) ==
    /\ recv_pc = "idle"
    /\ calls_left > 0
    /\ calls_left' = calls_left - 1
    /\ recv_pc' = "poll"
    /\ start' = now
    /\ timeout' = t
    /\ recv_ret' = [tag |-> "Pending"]
    /\ polls' = 0 /\ slept' = 0
    /\ UNCHANGED <<mainVars, taskVars, lockVars,
                   receiver, sendVars, wire, now, rxVars, codecVars, noise,
                   noise_left, faults_left>>

\* One turn of receive's loop: try_receive, then the match on its result.
ReceiveTurn(fail_at) ==
    /\ recv_pc = "poll"
    /\ polls < MaxPolls
    /\ TryReceiveCall(fail_at)
    /\ polls' = polls + 1
    /\ \E step \in {receive_step(receiver, last_ret', now - start, timeout)} :
          /\ recv_pc' = step.pc
          /\ recv_ret' = step.ret
    /\ UNCHANGED <<mainVars, taskVars, lockVars,
                   receiver, sendVars, now, start, timeout, slept, calls_left,
                   codecVars, noise, noise_left>>

ReceivePoll ==
    /\ ReceiveTurn(0)
    /\ UNCHANGED faults_left

\* A turn in which a read from the transport fails.
ReceivePollReadFail ==
    /\ faults_left > 0
    /\ faults_left' = faults_left - 1
    /\ \E fail_at \in FailPoints(receiver, wire) : ReceiveTurn(fail_at)

\* std::thread::sleep(10 ms) in the server's loop: at least that long.
ReceiveSleep ==
    /\ recv_pc = "sleep"
    /\ \E late \in 0..1 : now' = now + SLEEP_MS + late
    /\ slept' = slept + 1
    /\ recv_pc' = "poll"
    /\ UNCHANGED <<mainVars, taskVars, lockVars,
                   receiver, sendVars, wire, rxVars, start, timeout, recv_ret,
                   polls, calls_left, codecVars, noise, noise_left,
                   faults_left>>

\* Time passes while receive runs.
Tick ==
    /\ recv_pc = "poll"
    /\ now < MaxTime
    /\ now' = now + 1
    /\ UNCHANGED <<mainVars, taskVars, lockVars,
                   receiver, sendVars, wire, rxVars, recvVars, codecVars,
                   noise, noise_left, faults_left>>

\* The timeouts receive is called with, in milliseconds.
Timeouts == {0, 2, SLEEP_MS + 1}

InitReceive ==
    /\ InitChannel
    /\ inbound_len = 0
    /\ message = Heartbeat
    /\ codec_pc = "idle"
    /\ sends_left = 1 /\ noise_left = MaxNoise
    /\ faults_left = MaxFaults /\ calls_left = MaxCalls

NextReceive ==
    \/ \E t \in Timeouts : ReceiveBegin(t)
    \/ ReceivePoll
    \/ ReceivePollReadFail
    \/ ReceiveSleep
    \/ Tick
    \/ Noise(<<5, 0>>)
    \/ SendBegin(Heartbeat)
    \/ SendWrite
    \/ SendFlush

SpecReceive == InitReceive /\ [][NextReceive]_vars

-----------------------------------------------------------------------------
(* The firmware's tasks: rx_task, main, tx_task and the two queues *)

\* Capacity of RX_CHANNEL and of TX_CHANNEL.
QUEUE_CAP == 16

\* The peer sends QUEUE_CAP + MaxInbound messages in a run.
MaxInbound == 4

\* One read of rx_task completes one frame or two.
Batches == {1, 2}

\* The i-th message the peer sends: Heartbeats, among them a SetLeds of a
\* length the strip does not have, a Log and, last, a SetLeds for the whole
\* strip.
Inbound(i) ==
    CASE i = 5 -> SetLeds(<<Red>>)
      [] i = 7 -> Log("info", <<104, 105>>)
      [] i = inbound_len -> SetLeds([k \in 1..NUM_LEDS |-> White])
      [] OTHER -> Heartbeat

\* A channel that lets its newest entry go when it is full.
try_send_displacing(channel, m) ==
    [ok |-> TRUE,
     channel |-> IF Len(channel) < QUEUE_CAP THEN Append(channel, m)
                 ELSE Append(SubSeq(channel, 1, Len(channel) - 1), m)]

\* Sender::try_send: enqueues when there is room, fails at once when the
\* channel is full.
try_send(channel, m) ==
    IF Len(channel) < QUEUE_CAP
    THEN [ok |-> TRUE, channel |-> Append(channel, m)]
    ELSE [ok |-> FALSE, channel |-> channel]

\* A main that does not answer a Heartbeat.
main_handle_mute(m) ==
    CASE m.type = "SetLeds" ->
            [reply |-> <<>>, pixels |-> m.leds,
             write |-> Len(m.leds) = NUM_LEDS]
      [] OTHER ->
            [reply |-> <<>>, pixels |-> <<>>, write |-> FALSE]

\* A main that writes the pixels of a SetLeds of any length to the strip.
main_handle_any_length(m) ==
    CASE m.type = "Heartbeat" ->
            [reply |-> <<Heartbeat>>, pixels |-> <<>>, write |-> FALSE]
      [] m.type = "SetLeds" ->
            [reply |-> <<>>, pixels |-> m.leds, write |-> TRUE]
      [] OTHER ->
            [reply |-> <<>>, pixels |-> <<>>, write |-> FALSE]

\* main's match on a received message: a Heartbeat is answered with a
\* Heartbeat, the pixels of a SetLeds are written to the strip when there
\* are NUM_LEDS of them, anything else is logged.
main_handle(m) ==
    CASE m.type = "Heartbeat" ->
            [reply |-> <<Heartbeat>>, pixels |-> <<>>, write |-> FALSE]
      [] m.type = "SetLeds" ->
            [reply |-> <<>>, pixels |-> m.leds,
             write |-> Len(m.leds) = NUM_LEDS]
      [] OTHER ->
            [reply |-> <<>>, pixels |-> <<>>, write |-> FALSE]

\* A tx_task that ends at the first send that fails.
tx_next_halting(ret) == IF ret = "Ok" THEN "dequeue" ELSE "stopped"

\* tx_task after the send path returned ret: on to the next message.
tx_next(ret) == "dequeue"

\* rx_task reads bytes that complete the next k frames and decodes them.
RxRead ==
    /\ rx_pending = <<>>
    /\ rx_read < inbound_len
    /\ \E k \in {b \in Batches : b <= inbound_len - rx_read} :
          /\ rx_pending' = [i \in 1..k |-> Inbound(rx_read + i)]
          /\ rx_read' = rx_read + k
    /\ UNCHANGED <<rx_channel, tx_channel, tx_pc, tx_msg, main_log, tx_log,
                   dropped, stalled, inbound_len, led_strip, lockVars,
                   mainVars,
                   receiver, sendVars, wire, now, rxVars, recvVars,
                   codecVars, noise, noise_left, faults_left>>

\* rx_task enqueues the next decoded message on RX_CHANNEL; it is suspended
\* while the channel is full.
RxEnqueue ==
    /\ rx_pending # <<>>
    /\ Len(rx_channel) < QUEUE_CAP
    /\ rx_channel' = Append(rx_channel, Head(rx_pending))
    /\ rx_pending' = Tail(rx_pending)
    /\ UNCHANGED <<rx_read, tx_channel, tx_pc, tx_msg, main_log, tx_log,
                   dropped, stalled, inbound_len, led_strip, lockVars,
                   mainVars,
                   receiver, sendVars, wire, now, rxVars, recvVars,
                   codecVars, noise, noise_left, faults_left>>

\* One turn of main's loop: a message is received from RX_CHANNEL and
\* handled; the reply to a Heartbeat goes to TX_CHANNEL with try_send, whose
\* result is ignored; the LED driver's write succeeds or fails.
MainReceive ==
    /\ rx_channel # <<>>
    /\ rx_channel' = Tail(rx_channel)
    /\ main_log' = Append(main_log, Head(rx_channel))
    /\ stalled' = (stalled \/ (Len(rx_channel) = QUEUE_CAP
                                 /\ rx_pending # <<>>))
    /\ \E h \in {main_handle(Head(rx_channel))} :
          /\ \E r \in {IF h.reply = <<>>
                       THEN [ok |-> TRUE, channel |-> tx_channel]
                       ELSE try_send(tx_channel,
                                     [msg |-> h.reply[1],
                                      to |-> Len(main_log) + 1])} :
                /\ tx_channel' = r.channel
                /\ dropped' = IF r.ok THEN dropped
                              ELSE Append(dropped, Len(main_log) + 1)
          /\ \E written \in (IF h.write THEN BOOLEAN ELSE {FALSE}) :
                led_strip' = IF written THEN h.pixels ELSE led_strip
    /\ UNCHANGED <<rx_read, rx_pending, tx_pc, tx_msg, tx_log, inbound_len,
                   lockVars,
                   mainVars, receiver, sendVars, wire, now, rxVars, recvVars,
                   codecVars, noise, noise_left, faults_left>>

\* tx_task receives the next message from TX_CHANNEL; it is suspended while
\* the channel is empty.
TxDequeue ==
    /\ tx_pc = "dequeue"
    /\ tx_channel # <<>>
    /\ tx_msg' = <<Head(tx_channel)>>
    /\ tx_channel' = Tail(tx_channel)
    /\ tx_pc' = "send"
    /\ UNCHANGED <<rx_read, rx_pending, rx_channel, main_log, tx_log,
                   dropped, stalled, inbound_len, led_strip, lockVars,
                   mainVars,
                   receiver, sendVars, wire, now, rxVars, recvVars,
                   codecVars, noise, noise_left, faults_left>>

\* tx_task runs the send path on the message and goes on, whatever the send
\* path returned.
TxSend ==
    /\ tx_pc = "send"
    /\ \E ret \in {"Ok"} \cup (IF faults_left > 0 THEN {"WriteError"}
                               ELSE {}) :
          /\ tx_log' = Append(tx_log, [msg |-> tx_msg[1].msg,
                                       to |-> tx_msg[1].to, ret |-> ret])
          /\ tx_pc' = tx_next(ret)
          /\ faults_left' = IF ret = "Ok" THEN faults_left
                            ELSE faults_left - 1
    /\ UNCHANGED <<rx_read, rx_pending, rx_channel, tx_channel, tx_msg,
                   main_log, dropped, stalled, inbound_len, led_strip,
                   lockVars,
                   mainVars, receiver, sendVars, wire, now, rxVars, recvVars,
                   codecVars, noise, noise_left>>

TasksStart(n) ==
    /\ InitChannel
    /\ inbound_len = n
    /\ receiver = "firmware"
    /\ message = Heartbeat
    /\ codec_pc = "idle"
    /\ sends_left = 0 /\ noise_left = 0 /\ calls_left = 0
    /\ faults_left = MaxFaults

\* The peer sends enough to fill both queues.
InitTasks == TasksStart(QUEUE_CAP + MaxInbound)

\* A short run.
InitTasksFair == TasksStart(MaxInbound + 2)

NextTasks ==
    \/ RxRead
    \/ RxEnqueue
    \/ MainReceive
    \/ TxDequeue
    \/ TxSend

SpecTasks ==
    /\ InitTasks
    /\ [][NextTasks]_vars

\* The executor keeps running tx_task whenever it is ready.
SpecTasksFair ==
    /\ InitTasksFair
    /\ [][NextTasks]_vars
    /\ WF_vars(TxDequeue) /\ WF_vars(TxSend)

-----------------------------------------------------------------------------
(* try_receive on what the line brings in one go *)

\* A stray delimiter and then Heartbeat frames back to back, as many as fill
\* the reads of FloodReads invocations of the firmware.
FloodReads == 17

Flood(kind) ==
    [i \in 1..(FloodReads * READ_BUF) |->
        IF i = 1 THEN FRAME_DELIMITER
        ELSE encoded_frame(Peer(kind), Heartbeat)[((i - 2) % 3) + 1]]

\* What the line brings a handler of this kind: garbage alone or before a
\* frame, two or three frames back to back, a frame before or behind a
\* delimiter-free run, and for the firmware a flood of Heartbeats.
Lines(kind) ==
    LET F(m) == encoded_frame(Peer(kind), m)
    IN  Garbage
        \cup {g \o F(m) : g \in Garbage, m \in SmallMenu}
        \cup {F(m) \o F(n) : m, n \in SmallMenu}
        \cup {F(Heartbeat) \o F(SetLeds(<<Red>>)) \o F(m) : m \in SmallMenu}
        \cup {F(Heartbeat) \o long : long \in LongNoise}
        \cup {long \o F(Heartbeat) : long \in LongNoise}
        \cup (IF kind = "firmware" THEN {Flood(kind)} ELSE {})

\* The bytes of one of Lines arrive at the handler's port.
Arrive ==
    /\ noise_left > 0
    /\ noise_left' = 0
    /\ \E line \in Lines(receiver) :
          /\ wire' = wire \o line
          /\ noise' = Append(noise, line)
    /\ UNCHANGED <<mainVars,
                   taskVars, lockVars, receiver, sendVars, now, rxVars,
                   recvVars, codecVars, faults_left>>

\* try_receive is called and one of its reads fails.
TryReceiveReadFail ==
    /\ recv_pc = "idle"
    /\ faults_left > 0
    /\ faults_left' = faults_left - 1
    /\ \E fail_at \in FailPoints(receiver, wire) : TryReceiveCall(fail_at)
    /\ UNCHANGED <<mainVars,
                   taskVars, lockVars, receiver, sendVars, now, recvVars,
                   codecVars, noise, noise_left>>

\* try_receive is called while bytes are left on the line or in the buffer;
\* the polling ends when both are empty.
TryReceiveMore ==
    /\ wire # <<>> \/ receive_buffer # <<>>
    /\ TryReceive

InitLine ==
    /\ InitChannel
    /\ inbound_len = 0
    /\ message = Heartbeat
    /\ codec_pc = "idle"
    /\ sends_left = 0 /\ noise_left = 1 /\ calls_left = 0
    /\ faults_left = MaxFaults

NextLine ==
    \/ Arrive
    \/ TryReceiveMore
    \/ TryReceiveReadFail

\* The handler polls a line that brings one of Lines.
SpecLine == InitLine /\ [][NextLine]_vars

-----------------------------------------------------------------------------
(* One MessageHandler used by two call sites at once: send, try_receive and
   receive step by step, with the three mutexes of the handler *)

\* How many calls the call sites make in a run.
MaxOps == 2

\* The peer puts a frame on the line for every call site.
LineFrames == Cardinality(Threads)

\* The sizes of the writes the port accepts of rem inside a contended
\* send: all of it, or its first half.
WriteSizes(rem) ==
    {n \in AcceptSizes(rem) : n = Len(rem) \/ n = (Len(rem) + 1) \div 2}

\* The i-th frame the peer of the handler sends.
PeerFrame(i) ==
    encoded_frame(Peer(receiver),
                  IF i % 2 = 1 THEN Heartbeat ELSE SetLeds(<<Red>>))

\* The message a call site sends.
SendMessage(t) == IF t = "a" THEN Heartbeat ELSE SetLeds(<<Red>>)

\* The mutexes a call site holds.
Holds(t) == {m \in Mutexes : locks[m] = t}

\* The program counters at which a call site waits for a mutex, and the
\* mutex it waits for.
LockPcs == {"send_lock", "read_lock", "append_lock", "time_lock", "scan_lock"}

Wanted(pc) ==
    CASE pc \in {"send_lock", "read_lock"}   -> "port"
      [] pc \in {"append_lock", "scan_lock"} -> "receive_buffer"
      [] pc = "time_lock"                    -> "last_read_time"

Blocked(t) ==
    /\ thread[t].pc \in LockPcs
    /\ locks[Wanted(thread[t].pc)] # "free"

\* What the lock model leaves alone.
lockRest ==
    <<mainVars, taskVars, receiver, sendVars, now, last_ret, last_nread, rx_msgs,
      rx_errs, burst, recv_pc, start, timeout, recv_ret, polls, slept,
      codecVars, noise>>

\* A write loop that gives the port up after every write.
port_after_write_released(l) == [l EXCEPT !["port"] = "free"]

\* send: the guard of self.port.lock() lives through the write loop and the
\* flush, so the mutexes are as they were after a write.
port_after_write(l) == l

\* A read that keeps the port while the chunk is appended.
port_after_read_held(l) == l

\* try_receive: the guard of self.port.lock() is dropped at the end of the
\* block that reads, before the receive buffer is locked.
port_after_read(l) == [l EXCEPT !["port"] = "free"]

\* mutex.lock() of a call site waiting at pc from: it goes on to pc to once
\* the mutex is free.
Acquire(t, from, to) ==
    /\ thread[t].pc = from
    /\ locks[Wanted(from)] = "free"
    /\ locks' = [locks EXCEPT ![Wanted(from)] = t]
    /\ thread' = [thread EXCEPT ![t].pc = to]
    /\ UNCHANGED <<port_out, read_log, wire, receive_buffer, last_read_time,
                   faults_left, calls_left, noise_left, lockRest>>

\* A call site calls send: the frame is built before the port is locked.
CallSend(t) ==
    /\ thread[t].pc = "idle"
    /\ calls_left > 0
    /\ calls_left' = calls_left - 1
    /\ thread' = [thread EXCEPT ![t] =
                    [@ EXCEPT !.pc = "send_lock", !.op = "send",
                              !.call = @ + 1,
                              !.remaining =
                                  encoded_frame(receiver, SendMessage(t)),
                              !.ret = RNever]]
    /\ UNCHANGED <<locks, port_out, read_log, wire, receive_buffer,
                   last_read_time, faults_left, noise_left, lockRest>>

SendLock(t) == Acquire(t, "send_lock", "send_write")

\* One turn of the write loop: the port accepts n > 0 bytes.
SendWriteLocked(t) ==
    /\ thread[t].pc = "send_write"
    /\ thread[t].remaining # <<>>
    /\ \E n \in WriteSizes(thread[t].remaining) :
          /\ port_out' = port_out \o
                 [i \in 1..n |-> [by |-> t, call |-> thread[t].call,
                                  byte |-> thread[t].remaining[i]]]
          /\ thread' = [thread EXCEPT ![t].remaining = advance(@, n)]
    /\ locks' = port_after_write(locks)
    /\ UNCHANGED <<read_log, wire, receive_buffer, last_read_time,
                   faults_left, calls_left, noise_left, lockRest>>

\* The write loop is through and the flush succeeds: send returns Ok(()) and
\* the guard of the port is dropped.
SendFlushLocked(t) ==
    /\ thread[t].pc = "send_write"
    /\ thread[t].remaining = <<>>
    /\ thread' = [thread EXCEPT ![t] =
                    [@ EXCEPT !.pc = "idle", !.ret = [tag |-> "Ok"]]]
    /\ locks' = [locks EXCEPT !["port"] = "free"]
    /\ UNCHANGED <<port_out, read_log, wire, receive_buffer, last_read_time,
                   faults_left, calls_left, noise_left, lockRest>>

\* A write or the flush fails: send returns WriteError and the guard of the
\* port is dropped.
SendFailLocked(t) ==
    /\ thread[t].pc = "send_write"
    /\ faults_left > 0
    /\ faults_left' = faults_left - 1
    /\ thread' = [thread EXCEPT ![t] =
                    [@ EXCEPT !.pc = "idle", !.ret = RErr("WriteError")]]
    /\ locks' = [locks EXCEPT !["port"] = "free"]
    /\ UNCHANGED <<port_out, read_log, wire, receive_buffer, last_read_time,
                   calls_left, noise_left, lockRest>>

\* try_receive begins, called by the application or by the loop of receive.
begin_try_receive(th, op) ==
    [th EXCEPT !.pc = "read_lock", !.op = op, !.any_bytes_received = FALSE,
               !.new_data = <<>>, !.ret = RNever]

\* A call site calls try_receive or receive.
CallReceive(t, op) ==
    /\ thread[t].pc = "idle"
    /\ calls_left > 0
    /\ calls_left' = calls_left - 1
    /\ thread' = [thread EXCEPT ![t] = begin_try_receive(@, op)]
    /\ UNCHANGED <<locks, port_out, read_log, wire, receive_buffer,
                   last_read_time, faults_left, noise_left, lockRest>>

ReadLock(t) == Acquire(t, "read_lock", "read")

\* port.read returns n > 0 bytes: they are copied out and the port is given
\* up before the receive buffer is locked.
ReadData(t) ==
    /\ thread[t].pc = "read"
    /\ wire # <<>>
    /\ \E n \in {Min(READ_BUF, Len(wire))} :
          /\ thread' = [thread EXCEPT ![t] =
                          [@ EXCEPT !.pc = "append_lock",
                                    !.new_data = SubSeq(wire, 1, n),
                                    !.any_bytes_received = TRUE]]
          /\ wire' = SubSeq(wire, n + 1, Len(wire))
    /\ read_log' = Append(read_log, t)
    /\ locks' = port_after_read(locks)
    /\ UNCHANGED <<port_out, receive_buffer, last_read_time, faults_left,
                   calls_left, noise_left, lockRest>>

\* Where try_receive goes on after a read without data: the server's read
\* loop ends, the firmware had its one read.
after_no_data(th) ==
    [th EXCEPT !.pc = IF th.any_bytes_received THEN "time_lock"
                      ELSE "scan_lock"]

\* port.read returns no data (Ok(0) or TimedOut).
ReadNoData(t) ==
    /\ thread[t].pc = "read"
    /\ wire = <<>>
    /\ thread' = [thread EXCEPT ![t] = after_no_data(@)]
    /\ locks' = port_after_read(locks)
    /\ UNCHANGED <<port_out, read_log, wire, receive_buffer, last_read_time,
                   faults_left, calls_left, noise_left, lockRest>>

\* port.read fails: the server returns ReadError, the firmware takes it for
\* no data.
ReadFail(t) ==
    /\ thread[t].pc = "read"
    /\ faults_left > 0
    /\ faults_left' = faults_left - 1
    /\ thread' = [thread EXCEPT ![t] =
                    IF receiver = "server"
                    THEN [@ EXCEPT !.pc = "idle", !.ret = RErr("ReadError")]
                    ELSE after_no_data(@)]
    /\ locks' = port_after_read(locks)
    /\ UNCHANGED <<port_out, read_log, wire, receive_buffer, last_read_time,
                   calls_left, noise_left, lockRest>>

AppendLock(t) == Acquire(t, "append_lock", "append")

\* recv_buf.extend_from_slice(&new_data) under the receive_buffer lock; the
\* server then reads again, the firmware goes on.
AppendData(t) ==
    /\ thread[t].pc = "append"
    /\ receive_buffer' = receive_buffer \o thread[t].new_data
    /\ read_log' = SelectSeq(read_log, LAMBDA u : u # t)
    /\ thread' = [thread EXCEPT ![t] =
                    [@ EXCEPT !.pc = IF receiver = "server" THEN "read_lock"
                                     ELSE "time_lock",
                              !.new_data = <<>>]]
    /\ locks' = [locks EXCEPT !["receive_buffer"] = "free"]
    /\ UNCHANGED <<port_out, wire, last_read_time, faults_left, calls_left,
                   noise_left, lockRest>>

TimeLock(t) == Acquire(t, "time_lock", "time")

\* *last_read = Some(Instant::now()) under the last_read_time lock.
TimeSet(t) ==
    /\ thread[t].pc = "time"
    /\ last_read_time' = <<now>>
    /\ thread' = [thread EXCEPT ![t].pc = "scan_lock"]
    /\ locks' = [locks EXCEPT !["last_read_time"] = "free"]
    /\ UNCHANGED <<port_out, read_log, wire, receive_buffer, faults_left,
                   calls_left, noise_left, lockRest>>

ScanLock(t) == Acquire(t, "scan_lock", "scan")

\* The frame search under the receive_buffer lock, and the return of
\* try_receive.  Inside receive, Ok(None) leads to the check of the timeout.
ScanBuffer(t) ==
    /\ thread[t].pc = "scan"
    /\ \E r \in {scan(receiver, receive_buffer)} :
          /\ receive_buffer' = r.buf
          /\ thread' = [thread EXCEPT ![t] =
                          [@ EXCEPT !.pc = IF thread[t].op = "receive"
                                              /\ r.ret = RNone
                                           THEN "waiting" ELSE "idle",
                                    !.ret = r.ret]]
    /\ locks' = [locks EXCEPT !["receive_buffer"] = "free"]
    /\ UNCHANGED <<port_out, read_log, wire, last_read_time, faults_left,
                   calls_left, noise_left, lockRest>>

\* receive after Ok(None): the timeout has elapsed and Timeout is returned.
ReceiveTimeout(t) ==
    /\ thread[t].pc = "waiting"
    /\ thread' = [thread EXCEPT ![t] =
                    [@ EXCEPT !.pc = "idle", !.ret = RTimeout]]
    /\ UNCHANGED <<locks, port_out, read_log, wire, receive_buffer,
                   last_read_time, faults_left, calls_left, noise_left,
                   lockRest>>

\* receive after Ok(None): the timeout has not elapsed and, after the
\* server's sleep, try_receive is called again.
ReceiveAgain(t) ==
    /\ thread[t].pc = "waiting"
    /\ thread' = [thread EXCEPT ![t] = begin_try_receive(@, "receive")]
    /\ UNCHANGED <<locks, port_out, read_log, wire, receive_buffer,
                   last_read_time, faults_left, calls_left, noise_left,
                   lockRest>>

\* The next frame of the peer arrives at the port.
LineArrive ==
    /\ noise_left > 0
    /\ noise_left' = noise_left - 1
    /\ wire' = wire \o PeerFrame(LineFrames - noise_left + 1)
    /\ UNCHANGED <<lockVars, receive_buffer, last_read_time, faults_left,
                   calls_left, lockRest>>

\* One step of a call site inside try_receive.
TryReceiveSteps(t) ==
    \/ ReadLock(t)
    \/ ReadData(t)
    \/ ReadNoData(t)
    \/ AppendLock(t)
    \/ AppendData(t)
    \/ TimeLock(t)
    \/ TimeSet(t)
    \/ ScanLock(t)
    \/ ScanBuffer(t)

InitLocks ==
    /\ InitChannel
    /\ inbound_len = 0
    /\ message = Heartbeat
    /\ codec_pc = "idle"
    /\ sends_left = 0
    /\ noise_left = LineFrames
    /\ calls_left = MaxOps
    /\ faults_left = MaxFaults

NextLocks ==
    \/ LineArrive
    \/ \E t \in Threads :
          \/ CallSend(t)
          \/ SendLock(t)
          \/ SendWriteLocked(t)
          \/ SendFlushLocked(t)
          \/ SendFailLocked(t)
          \/ \E op \in {"try_receive", "receive"} : CallReceive(t, op)
          \/ TryReceiveSteps(t)
          \/ ReadFail(t)
          \/ ReceiveTimeout(t)
          \/ ReceiveAgain(t)

SpecLocks == InitLocks /\ [][NextLocks]_vars

\* A call site panics while it holds a guard: the thread is gone and the
\* mutex is poisoned, so every later lock() of it returns Err.
Panic(t) ==
    /\ Holds(t) # {}
    /\ faults_left > 0
    /\ faults_left' = faults_left - 1
    /\ locks' = [m \in Mutexes |-> IF locks[m] = t THEN "poisoned"
                                    ELSE locks[m]]
    /\ thread' = [thread EXCEPT ![t].pc = "panicked"]
    /\ read_log' = SelectSeq(read_log, LAMBDA u : u # t)
    /\ UNCHANGED <<port_out, wire, receive_buffer, last_read_time,
                   calls_left, noise_left, lockRest>>

\* Where a call goes on when its lock() returns Err: send and the read and
\* append blocks of try_receive return LockError; the block that sets
\* last_read_time is skipped; the frame search is skipped and try_receive
\* ends with the Ok(None) behind it.
after_lock_error(th) ==
    CASE th.pc \in {"send_lock", "read_lock", "append_lock"} ->
            [th EXCEPT !.pc = "idle", !.ret = RErr("LockError"),
                       !.new_data = <<>>]
      [] th.pc = "time_lock" ->
            [th EXCEPT !.pc = "scan_lock"]
      [] th.pc = "scan_lock" ->
            [th EXCEPT !.pc = IF th.op = "receive" THEN "waiting"
                              ELSE "idle",
                       !.ret = RNone]

\* lock() of a poisoned mutex returns Err.
LockFail(t) ==
    /\ thread[t].pc \in LockPcs
    /\ locks[Wanted(thread[t].pc)] = "poisoned"
    /\ thread' = [thread EXCEPT ![t] = after_lock_error(@)]
    /\ read_log' = IF thread[t].pc = "append_lock"
                   THEN SelectSeq(read_log, LAMBDA u : u # t)
                   ELSE read_log
    /\ UNCHANGED <<locks, port_out, wire, receive_buffer, last_read_time,
                   faults_left, calls_left, noise_left, lockRest>>

NextPoison ==
    \/ NextLocks
    \/ \E t \in Threads : Panic(t) \/ LockFail(t)

SpecPoison == InitLocks /\ [][NextPoison]_vars

\* A peer that keeps sending: the next Heartbeat frame is at the port as
\* soon as the last one was read, as long as the receive buffer holds no
\* more than MaxBacklog bytes.
MaxBacklog == 6

Refill ==
    /\ wire = <<>>
    /\ Len(receive_buffer) <= MaxBacklog
    /\ wire' = PeerFrame(1)
    /\ UNCHANGED <<lockVars, receive_buffer, last_read_time, faults_left,
                   calls_left, noise_left, lockRest>>

\* A call site polls: it calls try_receive whenever it is idle.
Poll(t) ==
    /\ thread[t].pc = "idle"
    /\ thread' = [thread EXCEPT ![t] = begin_try_receive(@, "try_receive")]
    /\ UNCHANGED <<locks, port_out, read_log, wire, receive_buffer,
                   last_read_time, faults_left, calls_left, noise_left,
                   lockRest>>

PollStep(t) == Poll(t) \/ TryReceiveSteps(t)

InitDrain ==
    /\ InitChannel
    /\ inbound_len = 0
    /\ message = Heartbeat
    /\ codec_pc = "idle"
    /\ sends_left = 0
    /\ noise_left = 0
    /\ calls_left = 0
    /\ faults_left = 0

NextDrain == Refill \/ \E t \in Threads : PollStep(t)

\* Every call site that can take a step infinitely often takes one: the
\* threads are scheduled and a mutex that is free again and again is
\* acquired.
SpecDrainFair ==
    /\ InitDrain
    /\ [][NextDrain]_vars
    /\ \A t \in Threads : SF_vars(PollStep(t))

-----------------------------------------------------------------------------
(* The firmware's writers to the UART: MessageHandler::send and
   SerialLogger::log, with the server receiving *)

\* The records the firmware logs.
LogRecords == {Log(level, text) : level \in {"info", "warn"},
                                  text \in {<<>>, <<104, 105>>}}

\* SerialLogger::log: the bytes handed to the UART are message.to_bytes().
log_bytes(m) == to_bytes(m)

\* SerialLogger::log is called with a record: the write loop hands the bytes
\* to the UART and stops at the first write that makes no progress or
\* fails, without telling anybody.
LoggerLog(m) ==
    /\ send_pc = "idle"
    /\ sends_left > 0
    /\ sends_left' = sends_left - 1
    /\ \E bs \in {log_bytes(m)} :
       \E n \in {Len(bs)} \cup (IF faults_left > 0 THEN 0..(Len(bs) - 1)
                                ELSE {}) :
          /\ faults_left' = IF n < Len(bs) THEN faults_left - 1
                            ELSE faults_left
          /\ wire' = wire \o SubSeq(bs, 1, n)
          /\ sent' = Append(sent, [msg |-> m, ret |-> "Logged",
                                   len |-> Len(bs),
                                   bytes |-> SubSeq(bs, 1, n)])
    /\ UNCHANGED <<mainVars,
                   taskVars, lockVars, receiver, send_pc, message, encoded,
                   remaining, send_ret, accepted, flushed, failure,
                   short_write, now, rxVars, recvVars, codecVars, noise,
                   noise_left>>

InitLog ==
    /\ InitChannel
    /\ receiver = "server"
    /\ inbound_len = 0
    /\ message = Heartbeat
    /\ codec_pc = "idle"
    /\ sends_left = MaxSends /\ faults_left = MaxFaults
    /\ noise_left = 0 /\ calls_left = 0

NextLog ==
    \/ \E m \in SmallMenu : SendBegin(m)
    \/ SendWrite
    \/ SendFlush
    \/ \E m \in LogRecords : LoggerLog(m)
    \/ TryReceive

SpecLog == InitLog /\ [][NextLog]_vars

-----------------------------------------------------------------------------
(* The server's main loop *)

\* How many iterations of the loop the model follows.
MaxIter == 205

\* since_message >= 100: the counter's value that makes main send.
HEARTBEAT_EVERY == 100

\* std::thread::sleep(Duration::from_millis(10)).
MAIN_SLEEP_MS == 10

\* What message_handler.try_receive() hands to the loop.
Polled ==
    {RNone} \cup {RSome(m) : m \in SmallMenu}
            \cup {RErr(e) : e \in {"ReadError", "LockError", "BufferOverflow"}}

\* What the match on that result prints.
printed(r) ==
    CASE r.tag = "None" -> "nothing"
      [] r.tag = "Err" -> "Error receiving message"
      [] r.tag = "Some" /\ r.msg.type = "Heartbeat" -> "Received heartbeat"
      [] r.tag = "Some" /\ r.msg.type = "Log" -> "log line"
      [] OTHER -> "Received unexpected message"

\* since_message += 1 on a u8.
add_u8(c, d) == (c + d) % 256

\* A loop that sends once the counter has passed 100.
heartbeat_due_late(c) == c > HEARTBEAT_EVERY

\* if since_message >= 100
heartbeat_due(c) == c >= HEARTBEAT_EVERY

\* One iteration of the loop: the poll and its match, the sleep, the
\* counter, and, when the counter is due, the send of a Heartbeat, whose
\* failure makes main return.
MainIteration(r, send_ok) ==
    /\ main_pc = "loop"
    /\ iterations < MaxIter
    /\ iterations' = iterations + 1
    /\ now' = now + MAIN_SLEEP_MS
    /\ LET f(c) ==
           IF heartbeat_due(c)
           THEN /\ since_message' = 0
                /\ heartbeats' = Append(heartbeats, iterations + 1)
                /\ main_seen' = main_seen \cup {printed(r),
                                                "Sending heartbeat"}
                /\ IF send_ok
                   THEN /\ wire' = wire \o encoded_frame("server", Heartbeat)
                        /\ main_pc' = "loop"
                   ELSE /\ wire' = wire
                        /\ main_pc' = "returned"
           ELSE /\ since_message' = c
                /\ main_seen' = main_seen \cup {printed(r)}
                /\ UNCHANGED <<heartbeats, wire, main_pc>>
       IN f(add_u8(since_message, 1))
    /\ UNCHANGED <<taskVars, lockVars, receiver, sendVars, rxVars, recvVars,
                   codecVars, noise, noise_left, faults_left>>

InitMain ==
    /\ InitChannel
    /\ receiver = "firmware"
    /\ inbound_len = 0
    /\ message = Heartbeat
    /\ codec_pc = "idle"
    /\ sends_left = 0 /\ faults_left = 0
    /\ noise_left = 0 /\ calls_left = 0

NextMain == \E r \in Polled, send_ok \in BOOLEAN : MainIteration(r, send_ok)

SpecMain == InitMain /\ [][NextMain]_vars

-----------------------------------------------------------------------------
(* Properties *)

\* Where the delimiter byte occurs in s.
zeros(s) == {i \in 1..Len(s) : s[i] = FRAME_DELIMITER}

IsPrefix(s, t) == Len(s) <= Len(t) /\ SubSeq(t, 1, Len(s)) = s

\* The frame the receiver's peer builds of m.
Frame(m) == encoded_frame(Peer(receiver), m)

\* The longest frame that fits the receive buffer together with its
\* delimiter.
LongestFit == BUFFER_CAP + 1

\* A step is a try_receive invocation that changed something; it read
\* ReadBytes from the transport and worked on Gathered.
TryReceiveStep == rxVars' # rxVars \/ Len(wire') < Len(wire)

ReadBytes == SubSeq(wire, 1, Len(wire) - Len(wire'))

Gathered == receive_buffer \o ReadBytes

\* What the next n try_receive invocations return when no further byte
\* arrives, from the receive buffer buf on.
RECURSIVE drain(_, _, _)
drain(kind, buf, n) ==
    LET then(r) == <<r.ret>> \o drain(kind, r.buf, n - 1)
    IN  IF n = 0 THEN <<>> ELSE then(try_receive(kind, buf, <<>>, 0))

\* C1: for every message m, Message::from_bytes(m.to_bytes()) succeeds and
\* returns a value equal to m.
C1_RoundTrip == codec_pc = "decoded" => decoded = Ok(message)

C1_Witness ==
    /\ codec_pc = "decoded"
    /\ decoded.ok
    /\ message.type = "SetLeds"
    /\ Len(message.leds) = NUM_LEDS

\* C2: the frame send hands to the transport holds the delimiter byte 0x00
\* exactly once, as its last byte.
C2_DelimiterLast ==
    codec_pc \in {"encoded", "decoded"} => zeros(encoded) = {Len(encoded)}

C2_Witness ==
    /\ codec_pc = "encoded"
    /\ message.type = "SetLeds"
    /\ zeros(bytes) # {}
    /\ encoded # <<>>

\* C3: when one read delivers N whole frames into an empty receive buffer,
\* this invocation and the N - 1 after it return the N messages in order
\* without any further byte, and the invocation after them returns none.
C3_Step ==
    (Len(wire') < Len(wire) /\ receive_buffer = <<>> /\ last_nread' <= READ_BUF)
    => \A msgs \in {FrameMsgs(Peer(receiver), ReadBytes)} :
          msgs # <<>> =>
             <<last_ret'>> \o drain(receiver, receive_buffer', Len(msgs))
                = [i \in 1..Len(msgs) |-> RSome(msgs[i])] \o <<RNone>>

C3_Burst == [][C3_Step]_vars

C3_Witness ==
    /\ burst = 2
    /\ Len(rx_msgs) = 2
    /\ last_nread = 0
    /\ last_ret = RSome(rx_msgs[2])
    /\ receive_buffer = <<>>

\* C4: the frame send built, of at most longest bytes, split over reads.
\* While the bytes gathered are a proper prefix of it, try_receive returns
\* Ok(None) and keeps them; when they are the whole frame it returns the
\* message, the one returned for the frame in one piece, and the buffer is
\* empty.
C4_Step(longest) ==
    (TryReceiveStep /\ encoded # <<>> /\ Len(encoded) <= longest) =>
       \A got \in {Gathered} :
          IsPrefix(got, encoded) =>
             IF got = encoded
             THEN /\ last_ret' = RSome(message)
                  /\ last_ret' = scan(receiver, encoded).ret
                  /\ receive_buffer' = <<>>
             ELSE /\ last_ret' = RNone
                  /\ receive_buffer' = got

\* C4 as amended: for every frame of at most BUFFER_CAP + 1 bytes.
C4_SplitFrame == [][C4_Step(LongestFit)]_vars

\* C4 as stated: for every frame.
C4_SplitAnyFrame == [][C4_Step(Huge)]_vars

C4_Witness ==
    /\ last_ret = RSome(Largest)
    /\ last_nread = 1
    /\ rx_msgs = <<Largest>>

\* C5: garbage with exactly one 0x00 in it followed by one valid frame in
\* the receive buffer: this invocation and the ones after it return one
\* message, the frame's, and no error.
C5_Step ==
    \A g \in Garbage, m \in SmallMenu :
       (Len(wire') < Len(wire) /\ Gathered = g \o Frame(m))
       => \A rets \in {<<last_ret'>> \o drain(receiver, receive_buffer', 2)} :
             /\ \A i \in 1..3 : rets[i].tag # "Err"
             /\ Cardinality({i \in 1..3 : rets[i].tag = "Some"}) = 1
             /\ \A i \in 1..3 : rets[i].tag = "Some" => rets[i].msg = m

C5_GarbageDiscarded == [][C5_Step]_vars

\* C6: a delimiter-free receive buffer of more than BUFFER_CAP bytes makes
\* try_receive return BufferOverflow and leaves the buffer empty, one of
\* up to BUFFER_CAP bytes is kept with Ok(None); after an overflow the next
\* invocation without new bytes returns Ok(None) and a frame that arrives
\* is decoded and returned.
C6_Step ==
    /\ (TryReceiveStep /\ zeros(Gathered) = {}) =>
          IF Len(Gathered) > BUFFER_CAP
          THEN last_ret' = RErr("BufferOverflow") /\ receive_buffer' = <<>>
          ELSE last_ret' = RNone /\ receive_buffer' = Gathered
    /\ last_ret' = RErr("BufferOverflow") =>
          /\ receive_buffer' = <<>>
          /\ try_receive(receiver, receive_buffer', <<>>, 0).ret = RNone
          /\ \A m \in SmallMenu :
                try_receive(receiver, receive_buffer', Frame(m), 0).ret
                   = RSome(m)

C6_Overflow == [][C6_Step]_vars

C6_Witness ==
    /\ rx_errs = <<"BufferOverflow">>
    /\ last_ret = RSome(Heartbeat)
    /\ rx_msgs = <<Heartbeat>>

\* The bytes the finished send calls of log put on the transport.
RECURSIVE OnLine(_)
OnLine(log) ==
    IF log = <<>> THEN <<>>
    ELSE OnLine(SubSeq(log, 1, Len(log) - 1)) \o log[Len(log)].bytes

\* C7: the transport accepts the bytes of the frame in frame order, none
\* skipped or repeated; send returns Ok only with the whole frame accepted
\* and the flush done; a write of 0 bytes, a write error or a flush error
\* makes it return WriteError at once.
C7_Send ==
    /\ send_pc # "idle" => encoded = Frame(message)
    /\ accepted \o remaining = encoded
    /\ wire = OnLine(sent) \o (IF send_pc = "idle" THEN <<>> ELSE accepted)
    /\ send_pc = "write" => remaining # <<>>
    /\ send_pc = "flush" => remaining = <<>>
    /\ send_ret = "Ok" => accepted = encoded /\ flushed /\ failure = "none"
    /\ failure # "none" =>
          send_pc = "idle" /\ send_ret = "WriteError" /\ ~flushed
    /\ send_ret = "WriteError" => failure # "none"
    /\ (send_pc = "idle" /\ sent # <<>>) =>
          /\ sent[Len(sent)].bytes = accepted
          /\ sent[Len(sent)].ret = send_ret

C7_Witness ==
    /\ send_ret = "Ok"
    /\ short_write
    /\ flushed
    /\ Len(encoded) > 1

\* C8: after a send call returned, the bytes it put on the transport are
\* the whole frame or nothing.
C8_Atomic ==
    send_pc = "idle" =>
       \A i \in 1..Len(sent) : Len(sent[i].bytes) \in {0, sent[i].len}

\* A receive call has returned.
Returned == recv_pc = "idle" /\ recv_ret # RNever

Stream ==
    [i \in 1..Len(sent) |-> sent[i].msg]
    \o (IF send_pc = "flush" THEN <<message>> ELSE <<>>)

\* try_receive has returned, in order, the messages of the stream whose
\* frames are not still on the way, and no error.
Delivered ==
    /\ rx_errs = <<>>
    /\ IsPrefix(rx_msgs, Stream)
    /\ Len(rx_msgs) + Cardinality(zeros(receive_buffer \o wire)) = Len(Stream)

\* C10 as amended: when no frame is longer than BUFFER_CAP + 1 bytes.
C10_InOrder ==
    ((\A i \in 1..Len(sent) : sent[i].len <= LongestFit)
        /\ (send_pc # "idle" => Len(encoded) <= LongestFit))
    => Delivered

\* C10 as stated: for any sequence of messages.
C10_AnyInOrder == Delivered

C10_Witness ==
    /\ Len(rx_msgs) = 2
    /\ rx_msgs[1] # rx_msgs[2]
    /\ rx_msgs = Stream
    /\ short_write
    /\ wire = <<>> /\ receive_buffer = <<>>


\* The inbound messages rx_task has read so far.
InboundRead == [i \in 1..rx_read |-> Inbound(i)]

\* The replies on their way out, oldest first: those handed to the send
\* path, the one tx_task holds, those in TX_CHANNEL; each named by the
\* inbound message it answers.
Outbound ==
    [k \in 1..Len(tx_log) |-> tx_log[k].to]
    \o (IF tx_pc = "send" THEN <<tx_msg[1].to>> ELSE <<>>)
    \o [k \in 1..Len(tx_channel) |-> tx_channel[k].to]

\* The Heartbeats main received, and those of them whose reply try_send
\* did not enqueue.
Answered == {i \in 1..Len(main_log) : main_log[i] = Heartbeat}

Dropped == {dropped[j] : j \in 1..Len(dropped)}

\* Both queues keep to the capacity; what rx_task decoded reaches main
\* complete, once and in order; what entered TX_CHANNEL reaches the send
\* path once and in order.
QueuesFifo ==
    /\ Len(rx_channel) <= QUEUE_CAP
    /\ Len(tx_channel) <= QUEUE_CAP
    /\ main_log \o rx_channel \o rx_pending = InboundRead
    /\ \A k \in 1..(Len(Outbound) - 1) : Outbound[k] < Outbound[k + 1]
    /\ {Outbound[k] : k \in 1..Len(Outbound)} = Answered \ Dropped
    /\ Dropped \subseteq Answered

\* C11 as amended: rx_task's enqueue waits for room in RX_CHANNEL, main's
\* try_send of a reply drops it when TX_CHANNEL is full, and every message
\* that entered a queue leaves it once, in FIFO order.
C11_Backpressure == QueuesFifo

\* C11 as stated: no enqueue on a full queue drops a message.
C11_NothingDropped == QueuesFifo /\ dropped = <<>>

C11_Witness ==
    /\ stalled
    /\ Len(main_log) = inbound_len
    /\ Len(rx_channel) = 0
    /\ Len(dropped) = 1
    /\ Len(tx_log) = QUEUE_CAP

\* tx_task is in its loop, and no message went to the send path twice.
TxTaskRuns ==
    /\ tx_pc \in {"dequeue", "send"}
    /\ \A j, k \in 1..Len(tx_log) : j < k => tx_log[j].to < tx_log[k].to

\* TX_CHANNEL is empty and tx_task waits for the next message.
TxDrained == tx_channel = <<>> /\ tx_pc = "dequeue"

\* C12: a send that fails does not stop tx_task and is not retried: the
\* task stays in its loop, hands no message to the send path twice, and
\* again and again has handed every message queued so far to the send path.
C12_TxTaskGoesOn == []TxTaskRuns /\ []<>TxDrained

C12_Witness ==
    /\ TxDrained
    /\ \E j, k \in 1..Len(tx_log) :
          j < k /\ tx_log[j].ret = "WriteError" /\ tx_log[k].ret = "Ok"

\* A try_receive invocation none of whose reads failed.
CleanStep == TryReceiveStep /\ faults_left' = faults_left

\* The first frame of the short buffer buf, delimiter included, does not
\* decode.
BadFirstFrame(buf) ==
    /\ buf # <<>>
    /\ Len(buf) <= SmallLen
    /\ first_zero(buf, 1) <= Len(buf)
    /\ ~from_bytes_cobs(SubSeq(buf, 1, first_zero(buf, 1)),
                        usize_bits(receiver)).ok

\* C13: when the bytes up to the first delimiter do not decode, the
\* invocation drops the one leading byte and scans again: it ends as it
\* would on the buffer without that byte, and returns no decode error.
C13_Step ==
    (CleanStep /\ BadFirstFrame(Gathered)) =>
       \A retry \in {scan(receiver, Tail(Gathered))} :
          /\ last_ret' = retry.ret
          /\ receive_buffer' = retry.buf
          /\ last_ret'.tag # "Err"

C13_ResyncOneByte == [][C13_Step]_vars

\* C14: every try_receive invocation terminates: a call site inside
\* try_receive gets out of it.
C14_Terminates ==
    \A t \in Threads : (thread[t].pc # "idle") ~> (thread[t].pc = "idle")

\* C15: whenever try_receive has returned, the receive buffer holds at most
\* BUFFER_CAP bytes.
C15_BufferBounded == Len(receive_buffer) <= BUFFER_CAP

ReadFailStep == faults_left' < faults_left

\* C17: a try_receive invocation in which a read fails.  The server returns
\* ReadError and no message, and the buffer keeps its bytes, with the chunks
\* read earlier in the invocation behind them.  The firmware takes the
\* failed read for no data: it reads nothing and returns what the frame
\* search finds in the buffer.  Either way the handler is idle afterwards, so
\* the next invocation reads the transport again.
C17_Step ==
    ReadFailStep =>
       /\ recv_pc' = "idle"
       /\ receiver = "server" =>
             /\ last_ret' = RErr("ReadError")
             /\ rx_msgs' = rx_msgs
             /\ receive_buffer' = Gathered
       /\ receiver = "firmware" =>
             /\ wire' = wire
             /\ \A r \in {scan_firmware(receive_buffer)} :
                   /\ last_ret' = r.ret
                   /\ receive_buffer' = r.buf

C17_NoMessage_Step ==
    ReadFailStep =>
       /\ last_ret'.tag # "Some"
       /\ rx_msgs' = rx_msgs
       /\ Len(receive_buffer') >= Len(receive_buffer)
       /\ SubSeq(receive_buffer', 1, Len(receive_buffer)) = receive_buffer

AppendStep(t) == thread[t].pc = "append" /\ thread'[t].pc # "append"

\* C18: a chunk is appended to the receive buffer only when no chunk read
\* before it is still waiting to be appended.
C18_Step == \A t \in Threads : AppendStep(t) => Head(read_log) = t

C18_AppendInReadOrder == [][C18_Step]_vars

\* The bytes the port accepted come in runs of one send call each.
Contiguous(out) ==
    \A i, k \in 1..Len(out) :
       (i < k /\ out[i].by = out[k].by /\ out[i].call = out[k].call) =>
          \A j \in i..k : out[j].by = out[i].by /\ out[j].call = out[i].call

\* C19: a call site inside the write loop of send holds the port, up to the
\* flush, and the bytes of two frames are never interleaved on the port.
C19_FramesContiguous ==
    /\ \A t \in Threads : thread[t].pc = "send_write" => locks["port"] = t
    /\ Contiguous(port_out)

C19_Witness ==
    /\ thread["a"].pc = "send_write"
    /\ thread["a"].remaining # <<>>
    /\ port_out # <<>>
    /\ port_out[Len(port_out)].by = "a"
    /\ thread["b"].pc = "send_lock"
    /\ Blocked("b")

\* C20: no call site holds two of the three mutexes at once, and a call
\* site that waits for a mutex waits for one whose holder is not waiting.
C20_OneLockAtATime ==
    /\ \A t \in Threads : Cardinality(Holds(t)) <= 1
    /\ \A t \in Threads :
          Blocked(t) => ~Blocked(locks[Wanted(thread[t].pc)])

C20_Witness ==
    /\ locks["port"] = "a"
    /\ thread["a"].pc = "send_write"
    /\ locks["receive_buffer"] = "b"
    /\ thread["b"].pc = "scan"
    /\ receive_buffer # <<>>

\* A turn of main's loop: one more message is in main_log.
MainStep == Len(main_log') = Len(main_log) + 1

\* C23: main answers a Heartbeat with one Heartbeat, enqueued on TX_CHANNEL
\* without waiting: with the channel full the reply is dropped and nothing
\* else happens.  Either way the turn of the loop ends, and main is never
\* held up by TX_CHANNEL: it can receive whenever RX_CHANNEL has a message.
C23_Step ==
    (MainStep /\ Head(rx_channel).type = "Heartbeat") =>
       /\ main_log' = Append(main_log, Heartbeat)
       /\ led_strip' = led_strip
       /\ IF Len(tx_channel) < QUEUE_CAP
          THEN /\ tx_channel' = Append(tx_channel,
                                       [msg |-> Heartbeat,
                                        to |-> Len(main_log) + 1])
               /\ dropped' = dropped
          ELSE /\ tx_channel' = tx_channel
               /\ dropped' = Append(dropped, Len(main_log) + 1)

C23_BestEffortReply ==
    /\ [][C23_Step]_vars
    /\ [](rx_channel # <<>> => ENABLED MainReceive)

C23_Witness ==
    /\ dropped # <<>>
    /\ main_log[dropped[1]] = Heartbeat
    /\ Len(main_log) > dropped[1]
    /\ Len(tx_channel) = QUEUE_CAP

\* C24: main takes the messages one at a time in the order of RX_CHANNEL;
\* the strip changes only to the pixels of a SetLeds with NUM_LEDS entries,
\* and a message that is no Heartbeat leaves TX_CHANNEL as it is.
C24_Step ==
    MainStep =>
       /\ main_log' = Append(main_log, Head(rx_channel))
       /\ rx_channel' = Tail(rx_channel)
       /\ led_strip' # led_strip =>
             /\ Head(rx_channel).type = "SetLeds"
             /\ Len(Head(rx_channel).leds) = NUM_LEDS
             /\ led_strip' = Head(rx_channel).leds
       /\ Head(rx_channel).type # "Heartbeat" =>
             /\ tx_channel' = tx_channel
             /\ dropped' = dropped

C24_OnlyFullStrip == [][C24_Step]_vars

C24_Witness ==
    /\ Len(led_strip) = NUM_LEDS
    /\ Len(main_log) = inbound_len
    /\ \E i, j \in 1..Len(main_log) :
          /\ main_log[i].type = "SetLeds"
          /\ Len(main_log[i].leds) = 1
          /\ main_log[j].type = "Log"

\* A call site's lock() returns Err.
LockFailStep(t) ==
    /\ thread[t].pc \in LockPcs
    /\ locks[Wanted(thread[t].pc)] = "poisoned"
    /\ thread'[t] # thread[t]

\* C21: a call whose lock() fails returns LockError.
C21_Step ==
    \A t \in Threads :
       LockFailStep(t) =>
          /\ thread'[t].pc = "idle"
          /\ thread'[t].ret = RErr("LockError")

C21_LockErrorSurfaced == [][C21_Step]_vars

\* C22: whatever an endpoint has written to the transport for a message, in
\* full, is the frame of that message: its stuffed encoding and then the
\* delimiter.
C22_EveryWriteFramed ==
    \A i \in 1..Len(sent) :
       Len(sent[i].bytes) = sent[i].len =>
          sent[i].bytes = encode_vec(to_bytes(sent[i].msg))
                            \o <<FRAME_DELIMITER>>

\* C25: at the start of every iteration of the server's main loop the
\* counter since_message is in 0..99, so it never overflows its 8 bits, and
\* send(Heartbeat) has been called exactly in the iterations 100, 200, ...,
\* whatever try_receive returned in the iterations between them.
C25_HeartbeatEvery100 ==
    /\ since_message \in 0..99
    /\ since_message = iterations % 100
    /\ Len(heartbeats) = iterations \div 100
    /\ \A k \in 1..Len(heartbeats) : heartbeats[k] = 100 * k

C25_Witness ==
    /\ main_pc = "loop"
    /\ iterations > 200
    /\ heartbeats = <<100, 200>>
    /\ {printed(r) : r \in Polled} \subseteq main_seen
====
